---- MODULE Spec2Model ----
(***************************************************************************)
(* A model of the mainline dependency-injection container                   *)
(* (src/mainline.py): Scope and its variants, ScopeRegistry, Registry,      *)
(* DependencyRegistry and the Di facade, as Python 2 runs them.  The state  *)
(* is that of one Di().  In Spec, SpecIso, SpecDeps, SpecMany, SpecForms    *)
(* and SpecScopes every call is one atomic action, made by a thread of a    *)
(* process, and the specifications differ in the calls they draw; in        *)
(* SpecConc the statements of resolve are the actions and two threads       *)
(* interleave them.                                                         *)
(***************************************************************************)
EXTENDS Integers, Sequences, FiniteSets, TLC

VARIABLES
    lookup,       \* ScopeRegistry._lookup : name or class -> class or scope instance
    scopeObjs,    \* the Scope instances ever constructed, per class
    factories,    \* Registry._factories   : key -> (factory, scope)
    depends_obj,  \* DependencyRegistry._depends_obj : obj -> set of keys
    ncalls,       \* number of objects user factories have constructed so far
    last,         \* the most recent facade call: its arguments and its outcome
    frames        \* per caller: the _resolve_one call it is in the middle of

vars == <<lookup, scopeObjs, factories, depends_obj, ncalls, last, frames>>

----------------------------------------------------------------------------
(* Bounds *)

MaxCalls   == 3       \* objects the user factories may construct in a run

----------------------------------------------------------------------------
(* Inputs *)

Keys       == {"a", "b", "k"}
UserFacs   == {"f", "g"}             \* factories that build a new object per call
Objs       == {"o1", "o2"}           \* fixed objects given to register_instance
(* A caller is <<thread, pid>>: threads 1 and 2 of process 1, and thread 1   *)
(* of process 2 (a forked child that kept the container).                    *)
Callers    == {<<1, 1>>, <<2, 1>>, <<1, 2>>}
Pid(c)     == c[2]
NoCaller   == <<0, 0>>
NoFactory  == "None"                 \* register(key) with factory=None
NoTarget   == "None"                 \* depends_on(keys) with obj=None

ScopeClasses == {"SingletonScope", "ProcessScope", "ThreadScope", "NoneScope"}

(* A scope reference is a string, a class or a Scope instance. *)
StrRef(s)      == [kind |-> "str",   v |-> s, id |-> 0]
ClassRef(c)    == [kind |-> "class", v |-> c, id |-> 0]
InstRef(c, i)  == [kind |-> "inst",  v |-> c, id |-> i]

(* An object built by a factory: who built it and which construction it was. *)
Made(f, n) == [by |-> f, n |-> n]
Fixed(o)   == [by |-> o, n |-> 0]

UserFactory(f)   == [kind |-> "user",   v |-> f]
LambdaFactory(o) == [kind |-> "lambda", v |-> o]     \* lambda: obj

----------------------------------------------------------------------------
(* dict helpers *)

EmptyDict == [x \in {} |-> 0]
Put(d, k, v) == [x \in (DOMAIN d) \cup {k} |-> IF x = k THEN v ELSE d[x]]

Ok(r)   == [ok |-> TRUE,  ref |-> r, err |-> ""]
Err(e)  == [ok |-> FALSE, ref |-> StrRef(""), err |-> e]

----------------------------------------------------------------------------
(* Scope *)

(* Scope.name: the class name without its 'Scope' suffix, lower-cased. *)
ScopeName(cls) ==
    CASE cls = "SingletonScope" -> "singleton"
      [] cls = "ProcessScope"   -> "process"
      [] cls = "ThreadScope"    -> "thread"
      [] cls = "NoneScope"      -> "none"

(* A variant of __key_transform__ without ProcessScope's override. *)
KeyTransformIdentity(cls, key, c) == key

(* __key_transform__: the identity, except ProcessScope's '%s_%s' % (pid, key). *)
KeyTransform(cls, key, c) ==
    IF cls = "ProcessScope" THEN ToString(Pid(c)) \o "_" \o key ELSE key

(* Scope.__init__ on thread c: self.instances = self.instances_factory().     *)
(* ThreadScope.instances_factory puts a dict in the constructing thread's      *)
(* thread-local and returns it; self.instances keeps referring to that one     *)
(* dict.  local is the set of threads whose thread-local holds the dict.       *)
NewScope(cls, c) ==
    [instances |-> EmptyDict,
     local     |-> IF cls = "ThreadScope" THEN {c} ELSE {}]

(* Mapping.__contains__ through Scope.__getitem__ *)
ScopeContains(obj, cls, key, c) == KeyTransform(cls, key, c) \in DOMAIN obj.instances

ScopeGetItem(obj, cls, key, c) == obj.instances[KeyTransform(cls, key, c)]

(* Variants of __setitem__: one that discards every write, one that lacks     *)
(* NoneScope's override, one that keeps what is stored (setdefault).          *)
ScopeSetItemIfAbsent(obj, cls, key, value, c) ==
    IF cls = "NoneScope" \/ KeyTransform(cls, key, c) \in DOMAIN obj.instances THEN obj
    ELSE [obj EXCEPT !.instances = Put(@, KeyTransform(cls, key, c), value)]

ScopeSetItemDiscard(obj, cls, key, value, c) == obj

ScopeSetItemNoOverride(obj, cls, key, value, c) ==
    [obj EXCEPT !.instances = Put(@, KeyTransform(cls, key, c), value)]

(* Scope.__setitem__; NoneScope.__setitem__ returns without storing. *)
ScopeSetItem(obj, cls, key, value, c) ==
    IF cls = "NoneScope" THEN obj
    ELSE [obj EXCEPT !.instances = Put(@, KeyTransform(cls, key, c), value)]

----------------------------------------------------------------------------
(* ScopeRegistry *)

(* is_scope: isinstance(obj, MutableMapping) or issubclass(obj, MutableMapping); *)
(* issubclass raises TypeError when obj is not a class.                          *)
IsScope(obj) ==
    CASE obj.kind = "inst"  -> "yes"
      [] obj.kind = "class" -> IF obj.v \in ScopeClasses THEN "yes" ELSE "no"
      [] OTHER              -> "TypeError"

(* ScopeRegistry._build / add: every registering subclass under its name. *)
BuiltLookup == [r \in {StrRef(ScopeName(cls)) : cls \in ScopeClasses} |->
                  ClassRef(CHOOSE cls \in ScopeClasses : ScopeName(cls) = r.v)]

(* ScopeRegistry.resolve.  A Scope instance is a Mapping and so unhashable:   *)
(* `scope in self._lookup` raises TypeError for it.                           *)
ScopeResolve(lk, scope) ==
    IF scope.kind = "inst" THEN Err("TypeError")
    ELSE LET s == IF scope \in DOMAIN lk THEN lk[scope] ELSE scope
             t == IsScope(s)
         IN  CASE t = "yes" -> Ok(s)
               [] t = "no"  -> Err("KeyError")
               [] OTHER     -> Err("TypeError")

(* ScopeRegistry.get on thread c returns the scope with the new lookup and    *)
(* the new scope objects.                                                     *)
Got(r, lk, objs) ==
    [ok |-> r.ok, ref |-> r.ref, err |-> r.err, lookup |-> lk, objs |-> objs]

(* A variant of the test that finds no class instantiated. *)
InstantiatedNever(lk, ref) == FALSE

(* `scope not in self._lookup` for the class ref, negated. *)
Instantiated(lk, ref) == ref \in DOMAIN lk

(* `if scope not in self._lookup: self._lookup[scope] = scope()` for the      *)
(* class ref: the lookup and the scope objects after it.                      *)
(* `self._lookup[scope] = scope()` on thread c: the new instance is stored    *)
(* under the class, whatever was there.                                       *)
MakeLookup(lk, objs, ref) == Put(lk, ref, InstRef(ref.v, Len(objs[ref.v]) + 1))

MakeObjs(objs, ref, c) == [objs EXCEPT ![ref.v] = Append(@, NewScope(ref.v, c))]

LazyLookup(lk, objs, ref) ==
    IF Instantiated(lk, ref) THEN lk ELSE MakeLookup(lk, objs, ref)

LazyObjs(lk, objs, ref, c) ==
    IF Instantiated(lk, ref) THEN objs ELSE MakeObjs(objs, ref, c)

(* get, given r = self.resolve(scope): a class is instantiated if it has no   *)
(* instance yet and resolved again.                                           *)
ScopeGetResolved(lk, objs, r, c) ==
    IF r.ok /\ r.ref.kind = "class"
    THEN Got(ScopeResolve(LazyLookup(lk, objs, r.ref), r.ref),
             LazyLookup(lk, objs, r.ref), LazyObjs(lk, objs, r.ref, c))
    ELSE Got(r, lk, objs)

ScopeGet(lk, objs, scope, c) == ScopeGetResolved(lk, objs, ScopeResolve(lk, scope), c)

----------------------------------------------------------------------------
(* Outcomes of a facade call *)

NoRes        == [kind |-> "none",  vals |-> <<>>, zipped |-> FALSE, err |-> ""]
Raise(e)     == [kind |-> "raise", vals |-> <<>>, zipped |-> FALSE, err |-> e]
Returned     == [kind |-> "ret",   vals |-> <<>>, zipped |-> FALSE, err |-> ""]
One(v, z)    == [kind |-> "one",   vals |-> <<v>>, zipped |-> z, err |-> ""]
Many(vs, z)  == [kind |-> "seq",   vals |-> vs,    zipped |-> z, err |-> ""]
(* A returned functools.partial object p. *)
Partial(p)   == [kind |-> "partial", vals |-> <<p>>, zipped |-> FALSE, err |-> ""]

Call(op, c, keys, arg, res, invoked) ==
    [op |-> op, caller |-> c, keys |-> keys, arg |-> arg, res |-> res, invoked |-> invoked]

----------------------------------------------------------------------------
(* Registry *)

(* A variant of Registry.add that stores the binding before it looks at the   *)
(* scope.                                                                     *)
RegistryAddUnchecked(lk, facs, key, factory, scope) ==
    LET r == ScopeResolve(lk, scope)
    IN  [ok |-> r.ok, err |-> r.err,
         factories |-> Put(facs, key, [factory |-> factory,
                                       scope |-> IF r.ok THEN r.ref ELSE scope])]

(* Registry.add: the scope is resolved first; the binding is stored only if   *)
(* that succeeded.                                                            *)
RegistryAdd(lk, facs, key, factory, scope) ==
    LET r == ScopeResolve(lk, scope)
    IN  IF r.ok THEN [ok |-> TRUE,  err |-> "",
                      factories |-> Put(facs, key, [factory |-> factory, scope |-> r.ref])]
        ELSE [ok |-> FALSE, err |-> r.err, factories |-> facs]

(* A variant of add_instance that binds the fixed object in the None scope. *)
RegistryAddInstanceUnscoped(lk, facs, key, obj) ==
    RegistryAdd(lk, facs, key, LambdaFactory(obj), StrRef("none"))

(* Registry.add_instance: scope is forced to 'singleton'. *)
RegistryAddInstance(lk, facs, key, obj) ==
    RegistryAdd(lk, facs, key, LambdaFactory(obj), StrRef("singleton"))

RegistryHas(facs, key) == key \in DOMAIN facs

----------------------------------------------------------------------------
(* DependencyRegistry *)

None      == [kind |-> "None", items |-> {}]
SetOf(ks) == [kind |-> "set",  items |-> ks]
Range(q)  == {q[i] : i \in 1 .. Len(q)}

(* DependencyRegistry.add: a defaultdict(set) entry is created by the first key. *)
DepsAdd(dep, obj, keys) ==
    IF keys = <<>> THEN dep
    ELSE Put(dep, obj, (IF obj \in DOMAIN dep THEN dep[obj] ELSE {}) \cup Range(keys))

(* DependencyRegistry.get *)
DepsGet(dep, obj) == IF obj \notin DOMAIN dep THEN None ELSE SetOf(dep[obj])

(* DependencyRegistry.missing: None, or an itertools.ifilterfalse iterator over *)
(* the declared keys the Registry does not have.                               *)
DepsMissing(dep, facs, obj) ==
    LET deps == DepsGet(dep, obj)
    IN  IF deps.kind = "None" \/ deps.items = {} THEN None
        ELSE [kind |-> "iter", items |-> {k \in deps.items : ~RegistryHas(facs, k)}]

(* A variant of the truth test that treats only an iterator with nothing to   *)
(* yield as true.                                                             *)
TruthyWhenEmpty(m) == m.kind # "None" /\ m.items = {}

(* Truth value of `missing` in `if missing:`.  None is false; an iterator     *)
(* object defines neither __nonzero__ nor __len__ and is true whatever it     *)
(* would yield.                                                               *)
Truthy(m) == m.kind # "None"

----------------------------------------------------------------------------
(* Di *)

(* The first positional argument of resolve / depends_on: a string or a list. *)
Str(k)    == [isStr |-> TRUE,  items |-> <<k>>]
List(ks)  == [isStr |-> FALSE, items |-> ks]

(* Di._coerce_key_or_keys, for a first argument that is a string whenever     *)
(* more_keys are given.                                                       *)
CoerceKeyOrKeys(key_or_keys, more_keys) ==
    IF more_keys # <<>> THEN key_or_keys.items \o more_keys
    ELSE IF key_or_keys.isStr THEN key_or_keys.items
    ELSE key_or_keys.items

(* A call of a registered factory: `lambda: obj` returns obj; a user factory  *)
(* raises or builds a new object.                                             *)
CallFactory(factory, n, raises) ==
    IF factory.kind = "lambda" THEN [ok |-> TRUE, val |-> Fixed(factory.v), n |-> n]
    ELSE IF raises THEN [ok |-> FALSE, val |-> Fixed(""), n |-> n]
    ELSE [ok |-> TRUE, val |-> Made(factory.v, n + 1), n |-> n + 1]

Failed(st, e, inv) ==
    [lookup |-> st.lookup, objs |-> st.objs, n |-> st.n,
     ok |-> FALSE, val |-> Fixed(""), err |-> e, invoked |-> inv]

Hit(g, n, v) ==
    [lookup |-> g.lookup, objs |-> g.objs, n |-> n,
     ok |-> TRUE, val |-> v, err |-> "", invoked |-> FALSE]

(* The store of `scope[key] = value = factory()`, given the outcome f of the  *)
(* factory call: it happens only if the factory returned.                     *)
CacheResult(g, n, key, c, f) ==
    IF ~f.ok THEN Failed([lookup |-> g.lookup, objs |-> g.objs, n |-> n], "FactoryError", TRUE)
    ELSE [lookup |-> g.lookup,
          objs |-> [g.objs EXCEPT ![g.ref.v][g.ref.id] =
                      ScopeSetItem(@, g.ref.v, key, f.val, c)],
          n |-> f.n, ok |-> TRUE, val |-> f.val, err |-> "", invoked |-> TRUE]

(* A variant of the construct-and-cache step that stores before it knows the  *)
(* factory returned: a raising factory leaves a placeholder in the scope.     *)
ConstructAndCacheEarly(g, n, factory, key, c, raises) ==
    [CacheResult(g, n, key, c, CallFactory(factory, n, raises)) EXCEPT
        !.objs = [g.objs EXCEPT ![g.ref.v][g.ref.id] =
                    ScopeSetItem(@, g.ref.v, key,
                                 CallFactory(factory, n, raises).val, c)]]

(* `scope[key] = value = factory()` in the scope g that get() returned. *)
ConstructAndCache(g, n, factory, key, c, raises) ==
    CacheResult(g, n, key, c, CallFactory(factory, n, raises))

(* A variant of the lookup in the scope that constructs and stores whether    *)
(* or not the key is there.                                                   *)
LookInScopeAlways(g, n, factory, key, c, raises) ==
    IF ~g.ok THEN Failed([lookup |-> g.lookup, objs |-> g.objs, n |-> n], g.err, FALSE)
    ELSE ConstructAndCache(g, n, factory, key, c, raises)

(* `if key in scope: value = scope[key]` `else: scope[key] = value = factory()` *)
LookInScope(g, n, factory, key, c, raises) ==
    IF ~g.ok THEN Failed([lookup |-> g.lookup, objs |-> g.objs, n |-> n], g.err, FALSE)
    ELSE IF ScopeContains(g.objs[g.ref.v][g.ref.id], g.ref.v, key, c)
    THEN Hit(g, n, ScopeGetItem(g.objs[g.ref.v][g.ref.id], g.ref.v, key, c))
    ELSE ConstructAndCache(g, n, factory, key, c, raises)

(* The completeness check made on the outcome r of the rest of _resolve_one. *)
CheckAfter(r, missing) ==
    IF r.ok /\ Truthy(missing) THEN [r EXCEPT !.ok = FALSE, !.err = "UnresolvableError"]
    ELSE r

(* A variant of _resolve_one that makes the completeness check after the     *)
(* cache check and the construction.                                          *)
ResolveOneCheckLast(st, facs, dep, key, c, raises) ==
    IF ~RegistryHas(facs, key) THEN Failed(st, "KeyError", FALSE)
    ELSE CheckAfter(LookInScope(ScopeGet(st.lookup, st.objs, facs[key].scope, c),
                                st.n, facs[key].factory, key, c, raises),
                    DepsMissing(dep, facs, key))

(* Di._resolve_one(key) on thread c, from st = [lookup, objs, n]; raises says *)
(* whether the factory, if it is a user factory and gets called, raises.      *)
ResolveOne(st, facs, dep, key, c, raises) ==
    IF ~RegistryHas(facs, key) THEN Failed(st, "KeyError", FALSE)
    ELSE IF Truthy(DepsMissing(dep, facs, key)) THEN Failed(st, "UnresolvableError", FALSE)
    ELSE LookInScope(ScopeGet(st.lookup, st.objs, facs[key].scope, c),
                     st.n, facs[key].factory, key, c, raises)

(* list(map(self._resolve_one, keys)): the keys in order from position i,     *)
(* stopping at the first one that raises; failAt is the position whose        *)
(* factory raises if it is called.  MapStep continues from the outcome r of   *)
(* position i.                                                                *)
MapDone(st, ok, vals, err, inv) ==
    [lookup |-> st.lookup, objs |-> st.objs, n |-> st.n,
     ok |-> ok, vals |-> vals, err |-> err, invoked |-> inv]

Invoked(inv, r, key) == IF r.invoked THEN Append(inv, key) ELSE inv

RECURSIVE MapResolveOne(_, _, _, _, _, _, _, _, _)
RECURSIVE MapStep(_, _, _, _, _, _, _, _, _)
MapStep(r, facs, dep, keys, c, failAt, i, vals, inv) ==
    IF ~r.ok THEN MapDone(r, FALSE, vals, r.err, Invoked(inv, r, keys[i]))
    ELSE MapResolveOne([lookup |-> r.lookup, objs |-> r.objs, n |-> r.n],
                       facs, dep, keys, c, failAt, i + 1,
                       Append(vals, r.val), Invoked(inv, r, keys[i]))

MapResolveOne(st, facs, dep, keys, c, failAt, i, vals, inv) ==
    IF i > Len(keys) THEN MapDone(st, TRUE, vals, "", inv)
    ELSE MapStep(ResolveOne(st, facs, dep, keys[i], c, failAt = i),
                 facs, dep, keys, c, failAt, i, vals, inv)

(* What Di.resolve returns for the resolved list ret. *)
ResolveReturn(ret, more_keys, with_keys) ==
    IF more_keys # <<>> THEN Many(ret, with_keys)
    ELSE IF ret = <<>> THEN Raise("IndexError")
    ELSE One(ret[1], with_keys)

----------------------------------------------------------------------------
(* A caller that is in no _resolve_one call. *)
Idle == [pc |-> "idle"]

Init ==
    /\ lookup = BuiltLookup
    /\ scopeObjs = [cls \in ScopeClasses |-> <<>>]
    /\ factories = EmptyDict
    /\ depends_obj = EmptyDict
    /\ ncalls = 0
    /\ last = Call("init", NoCaller, <<>>, "", NoRes, <<>>)
    /\ frames = [c \in Callers |-> Idle]

(* A variant of the partial that keeps the key and drops the scope keyword.   *)
RegisterBoundKeyOnly(key, scope) == [key |-> key, scope |-> StrRef("singleton")]

(* functools.partial(self.register, key, scope=scope) *)
RegisterBound(key, scope) == [key |-> key, scope |-> scope]

(* self._registry.add(key, factory, scope) and what register then returns or  *)
(* raises; op names the call in the record.                                   *)
RegisterAdd(op, key, arg, r) ==
    /\ factories' = r.factories
    /\ last' = Call(op, NoCaller, <<key>>, arg,
                    IF r.ok THEN Returned ELSE Raise(r.err), <<>>)
    /\ UNCHANGED <<lookup, scopeObjs, depends_obj, ncalls, frames>>

(* Di.register(key, factory, scope).  Registration does not depend on the     *)
(* calling thread, and the call record keeps no caller for it.  Without a     *)
(* factory it returns a partial and touches nothing.                          *)
Register(key, f, scope) ==
    IF f = NoFactory
    THEN /\ last' = Call("register", NoCaller, <<key>>, scope.v,
                         Partial(RegisterBound(key, scope)), <<>>)
         /\ UNCHANGED <<lookup, scopeObjs, factories, depends_obj, ncalls, frames>>
    ELSE RegisterAdd("register", key, scope.v,
                     RegistryAdd(lookup, factories, key, UserFactory(f), scope))

(* The partial that the last call returned, applied to f as a decorator is:   *)
(* self.register(key, f, scope=scope) with the key and the scope it holds.    *)
RegisterPartial(f) ==
    /\ last.op = "register" /\ last.res.kind = "partial"
    /\ RegisterAdd("partial", last.res.vals[1].key, f,
                   RegistryAdd(lookup, factories, last.res.vals[1].key,
                               UserFactory(f), last.res.vals[1].scope))

(* Di.register_instance(key, obj) *)
RegisterInstance(key, obj) ==
    LET r == RegistryAddInstance(lookup, factories, key, obj)
    IN  /\ factories' = r.factories
        /\ last' = Call("register_instance", NoCaller, <<key>>, obj,
                        IF r.ok THEN Returned ELSE Raise(r.err), <<>>)
        /\ UNCHANGED <<lookup, scopeObjs, depends_obj, ncalls, frames>>

(* Di.depends_on(key_or_keys, obj).  Without obj, l.244 reads the name        *)
(* keys_or_keys, which is neither a local nor a global: NameError.            *)
DependsOn(key_or_keys, obj) ==
    IF obj = NoTarget
    THEN /\ last' = Call("depends_on", NoCaller, key_or_keys.items, obj,
                         Raise("NameError"), <<>>)
         /\ UNCHANGED <<lookup, scopeObjs, factories, depends_obj, ncalls, frames>>
    ELSE LET keys == CoerceKeyOrKeys(key_or_keys, <<>>)
         IN  /\ depends_obj' = DepsAdd(depends_obj, obj, keys)
             /\ last' = Call("depends_on", NoCaller, keys, obj, Returned, <<>>)
             /\ UNCHANGED <<lookup, scopeObjs, factories, ncalls, frames>>

(* The effect of Di.resolve, given the coerced keys and the outcome r of      *)
(* mapping _resolve_one over them.                                            *)
ResolveEffect(c, keys, form, more_keys, with_keys, failAt, r) ==
    /\ r.n <= MaxCalls
    /\ failAt > 0 => r.err = "FactoryError"
    /\ lookup' = r.lookup
    /\ scopeObjs' = r.objs
    /\ ncalls' = r.n
    /\ last' = Call("resolve", c, keys, form,
                    IF r.ok THEN ResolveReturn(r.vals, more_keys, with_keys)
                    ELSE Raise(r.err),
                    r.invoked)
    /\ UNCHANGED <<factories, depends_obj, frames>>

ResolveKeys(c, keys, form, more_keys, with_keys, failAt) ==
    ResolveEffect(c, keys, form, more_keys, with_keys, failAt,
                  MapResolveOne([lookup |-> lookup, objs |-> scopeObjs, n |-> ncalls],
                                factories, depends_obj, keys, c, failAt, 1, <<>>, <<>>))

(* Di.resolve(key_or_keys, *more_keys, with_keys=...) on thread c *)
Resolve(c, key_or_keys, more_keys, with_keys, failAt) ==
    ResolveKeys(c, CoerceKeyOrKeys(key_or_keys, more_keys),
                IF more_keys # <<>> THEN "args"
                ELSE IF key_or_keys.isStr THEN "str" ELSE "iter",
                more_keys, with_keys, failAt)

(* The orders in which iterating over the set S can yield its elements. *)
Orders(S) == {q \in [1 .. Cardinality(S) -> S] : Range(q) = S}

(* The effect of self.resolve(deps, **kwargs) in resolve_deps(obj), given the *)
(* keys in the order the set yielded them and the outcome r of mapping        *)
(* _resolve_one over them.  No more_keys are passed.                          *)
ResolveDepsEffect(c, obj, keys, with_keys, failAt, r) ==
    /\ r.n <= MaxCalls
    /\ failAt > 0 => r.err = "FactoryError"
    /\ lookup' = r.lookup
    /\ scopeObjs' = r.objs
    /\ ncalls' = r.n
    /\ last' = Call("resolve_deps", c, keys, obj,
                    IF r.ok THEN ResolveReturn(r.vals, <<>>, with_keys)
                    ELSE Raise(r.err),
                    r.invoked)
    /\ UNCHANGED <<factories, depends_obj, frames>>

(* Di.resolve_deps(obj, with_keys=...) on thread c.  get_deps returns None    *)
(* for an obj without declarations, and keys.extend(None) raises TypeError.   *)
ResolveDeps(c, obj, with_keys, failAt) ==
    IF DepsGet(depends_obj, obj).kind = "None"
    THEN /\ failAt = 0
         /\ last' = Call("resolve_deps", c, <<>>, obj, Raise("TypeError"), <<>>)
         /\ UNCHANGED <<lookup, scopeObjs, factories, depends_obj, ncalls, frames>>
    ELSE \E q \in Orders(DepsGet(depends_obj, obj).items) :
            ResolveDepsEffect(c, obj, CoerceKeyOrKeys(List(q), <<>>), with_keys, failAt,
                MapResolveOne([lookup |-> lookup, objs |-> scopeObjs, n |-> ncalls],
                              factories, depends_obj, CoerceKeyOrKeys(List(q), <<>>),
                              c, failAt, 1, <<>>, <<>>))

(* A scope instance as a returned value: its class and which instance of the  *)
(* class it is.                                                               *)
ScopeObj(ref) == [by |-> ref.v, n |-> ref.id]

(* What a direct call of ScopeRegistry.get leaves and returns, given the      *)
(* outcome g of get.                                                          *)
ScopesGetEffect(c, scope, g) ==
    /\ lookup' = g.lookup
    /\ scopeObjs' = g.objs
    /\ last' = Call("get", c, <<>>, scope.v,
                    IF g.ok THEN One(ScopeObj(g.ref), FALSE) ELSE Raise(g.err), <<>>)
    /\ UNCHANGED <<factories, depends_obj, ncalls, frames>>

(* di._scopes.get(scope) on thread c *)
ScopesGet(c, scope) == ScopesGetEffect(c, scope, ScopeGet(lookup, scopeObjs, scope, c))

----------------------------------------------------------------------------
(* Spec: the lifetime of one key "a" in the Singleton and None scopes, used   *)
(* from two threads of one process; "b" is a key that is never bound.         *)

OneKey == {"a", "b"}

CachingArgs == {StrRef("singleton"), StrRef("none"), StrRef("bogus"),
                ClassRef("SingletonScope"), ClassRef("object")}
Threads     == {<<1, 1>>, <<2, 1>>}

Next ==
    \/ \E f \in UserFacs, scope \in CachingArgs : Register("a", f, scope)
    \/ \E obj \in Objs : RegisterInstance("a", obj)
    \/ \E k \in OneKey : DependsOn(Str(k), "a")
    \/ \E c \in Threads, k \in OneKey, failAt \in 0 .. 1 :
          Resolve(c, Str(k), <<>>, FALSE, failAt)

Spec == Init /\ [][Next]_vars

----------------------------------------------------------------------------
(* SpecIso: one key "a" in the Thread and Process scopes, used from every     *)
(* caller.                                                                    *)

IsolatingArgs == {StrRef("thread"), StrRef("process")}

NextIso ==
    \/ \E f \in UserFacs, scope \in IsolatingArgs : Register("a", f, scope)
    \/ \E c \in Callers, failAt \in 0 .. 1 :
          Resolve(c, Str("a"), <<>>, FALSE, failAt)

SpecIso == Init /\ [][NextIso]_vars

----------------------------------------------------------------------------
(* SpecDeps: "k" with declared dependencies on "a" and "b", everything in the *)
(* singleton scope, used from one thread.                                     *)

NextDeps ==
    \/ \E key \in Keys : Register(key, "f", StrRef("singleton"))
    \/ \E key \in Keys : RegisterInstance(key, "o1")
    \/ \E d \in {"a", "b"} : DependsOn(Str(d), "k")
    \/ DependsOn(List(<<"a", "b">>), "k")
    \/ \E key \in Keys, failAt \in 0 .. 1 :
          Resolve(<<1, 1>>, Str(key), <<>>, FALSE, failAt)

SpecDeps == Init /\ [][NextDeps]_vars

----------------------------------------------------------------------------
(* SpecMany: requests for several keys, "a" and "b" in the Singleton and None *)
(* scopes, "b" possibly declared to depend on the never bound "k".            *)

IterRequests == {<<>>, <<"a">>, <<"b">>, <<"a", "b">>, <<"b", "a">>, <<"a", "b", "a">>}
ArgsRequests == {<<"a", "b">>, <<"b", "a">>, <<"a", "b", "a">>}

NextMany ==
    \/ \E key \in {"a", "b"}, scope \in {StrRef("singleton"), StrRef("none")} :
          Register(key, "f", scope)
    \/ DependsOn(Str("k"), "b")
    \/ \E ks \in IterRequests, w \in BOOLEAN, failAt \in 0 .. 3 :
          Resolve(<<1, 1>>, List(ks), <<>>, w, failAt)
    \/ \E ks \in ArgsRequests, w \in BOOLEAN, failAt \in 0 .. 3 :
          Resolve(<<1, 1>>, Str(Head(ks)), Tail(ks), w, failAt)

SpecMany == Init /\ [][NextMany]_vars

----------------------------------------------------------------------------
(* What the claims speak of *)

(* The last call was resolve(k) with the single string k. *)
ResolvedStr(l, k) == l.op = "resolve" /\ l.arg = "str" /\ l.keys = <<k>>

(* k is bound to a factory in the scope class cls. *)
BoundIn(k, cls) == k \in DOMAIN factories /\ factories[k].scope = ClassRef(cls)

(* The instances stored by the scope objects: <<class, object, key, value>>. *)
Stored(objs) ==
    {<<cls, i, k, objs[cls][i].instances[k]>> :
        <<cls, i, k>> \in {x \in ScopeClasses \X (1 .. 2) \X
                                 (Keys \cup {KeyTransform("ProcessScope", y[1], y[2]) :
                                                 y \in Keys \X Callers}) :
                             /\ x[2] <= Len(objs[x[1]])
                             /\ x[3] \in DOMAIN objs[x[1]][x[2]].instances}}

(* The mapping of the scope instance that get() returns for class cls. *)
Live(lk, objs, cls) ==
    IF ClassRef(cls) \in DOMAIN lk THEN objs[cls][lk[ClassRef(cls)].id].instances
    ELSE EmptyDict

----------------------------------------------------------------------------
(* Claims checked under Spec *)

C5_InstanceThenResolve ==
    [][\A k \in Keys :
         (/\ last.op = "register_instance" /\ last.keys = <<k>>
          /\ ResolvedStr(last', k)
          /\ k \notin DOMAIN depends_obj)
         => last'.res = One(Fixed(last.arg), FALSE)
      ]_vars

(* C5 as amended: there, resolve(x) returns obj if the singleton scope stores *)
(* no instance for x, and otherwise returns the stored instance without       *)
(* calling the new factory.                                                   *)
C5_InstanceUnlessStored ==
    [][\A k \in Keys :
         (/\ last.op = "register_instance" /\ last.keys = <<k>>
          /\ ResolvedStr(last', k)
          /\ k \notin DOMAIN depends_obj)
         => IF k \in DOMAIN Live(lookup, scopeObjs, "SingletonScope")
            THEN /\ last'.res = One(Live(lookup, scopeObjs, "SingletonScope")[k], FALSE)
                 /\ last'.invoked = <<>>
            ELSE /\ last'.res = One(Fixed(last.arg), FALSE)
                 /\ last'.invoked = <<k>>
      ]_vars

(* resolve("a") returned an object a user factory had built although "a" is   *)
(* now bound to a fixed object.                                               *)
C5_Witness ==
    /\ ResolvedStr(last, "a") /\ last.res.kind = "one" /\ last.res.vals[1].n > 0
    /\ "a" \in DOMAIN factories /\ factories["a"].factory.kind = "lambda"
    /\ "a" \notin DOMAIN depends_obj

(* C8: when the factory bound to K raises during resolve(K), the caller gets  *)
(* the factory's failure, the call stores nothing in any scope, K is not in   *)
(* its scope afterwards, and a directly following resolve(K) calls the        *)
(* factory again.                                                             *)
C8_FactoryRaises ==
    [][\A k \in Keys :
         /\ (/\ ResolvedStr(last', k) /\ last'.res.kind = "raise"
             /\ last'.invoked # <<>>)
            => /\ last'.res.err = "FactoryError"
               /\ Stored(scopeObjs') = Stored(scopeObjs)
               /\ k \notin DOMAIN Live(lookup', scopeObjs', factories[k].scope.v)
         /\ (/\ ResolvedStr(last, k) /\ last.res.kind = "raise"
             /\ last.invoked # <<>>
             /\ ResolvedStr(last', k))
            => last'.invoked = <<k>>
      ]_vars

(* resolve("a") of a singleton-bound key failed in the factory. *)
C8_Witness ==
    /\ ResolvedStr(last, "a") /\ last.res = Raise("FactoryError")
    /\ last.invoked = <<"a">>
    /\ BoundIn("a", "SingletonScope")

(* C9: for a key K bound in the None scope, every resolve(K) that gets past   *)
(* the lookup and the completeness check calls the factory exactly once, so N *)
(* consecutive calls make N invocations; and no NoneScope instance ever       *)
(* stores anything.                                                           *)
C9_NoneScopeReconstructs ==
    /\ \A i \in 1 .. Len(scopeObjs["NoneScope"]) :
          scopeObjs["NoneScope"][i].instances = EmptyDict
    /\ \A k \in Keys :
          (/\ ResolvedStr(last, k) /\ BoundIn(k, "NoneScope")
           /\ last.res.err \notin {"KeyError", "UnresolvableError"})
          => last.invoked = <<k>>

(* The second construction by resolve("a") in the None scope. *)
C9_Witness ==
    /\ ResolvedStr(last, "a") /\ BoundIn("a", "NoneScope")
    /\ last.res.kind = "one" /\ last.res.vals[1].n = 2
    /\ last.invoked = <<"a">>
    /\ Stored(scopeObjs) = {}

(* C10: register(K, f, s) with s neither a registered scope name nor a scope  *)
(* class raises at the call and leaves the Registry as it was.                *)
C10_UnknownScope ==
    [][(/\ last'.op = "register"
        /\ StrRef(last'.arg) \notin DOMAIN lookup
        /\ last'.arg \notin ScopeClasses)
       => /\ last'.res.kind = "raise"
          /\ factories' = factories
      ]_vars

(* register("a", f, "bogus") failed while "a" had a binding. *)
C10_Witness ==
    /\ last.op = "register" /\ last.arg = "bogus" /\ last.res.kind = "raise"
    /\ "a" \in DOMAIN factories

(* C19: with every call running to its end before the next starts, no call   *)
(* removes or replaces an instance a scope stores, and the scope instance of  *)
(* a class stays the live one; so when register(K, g, s) is directly followed *)
(* by resolve(K) and the scope of s stores an instance for K, the call calls  *)
(* no factory and, if it returns, returns that instance.                      *)
C19_ScopesOnlyGrow ==
    [][/\ Stored(scopeObjs) \subseteq Stored(scopeObjs')
       /\ \A cls \in ScopeClasses :
             ClassRef(cls) \in DOMAIN lookup => lookup'[ClassRef(cls)] = lookup[ClassRef(cls)]
       /\ \A k \in Keys :
             (/\ last.op = "register" /\ last.keys = <<k>> /\ last.res = Returned
              /\ k \in DOMAIN Live(lookup, scopeObjs, factories[k].scope.v)
              /\ ResolvedStr(last', k))
             => /\ last'.invoked = <<>>
                /\ last'.res.kind # "raise"
                   => last'.res = One(Live(lookup, scopeObjs, factories[k].scope.v)[k], FALSE)
      ]_vars

(* resolve("a") returned the instance factory "f" or "g" had built although   *)
(* "a" was bound to the other factory by the call before.                     *)
C19_Witness ==
    /\ ResolvedStr(last, "a") /\ last.res.kind = "one" /\ last.invoked = <<>>
    /\ BoundIn("a", "SingletonScope") /\ factories["a"].factory.kind = "user"
    /\ last.res.vals[1].by \in UserFacs
    /\ last.res.vals[1].by # factories["a"].factory.v

----------------------------------------------------------------------------
(* Claims checked under SpecIso *)

(* C2: for a key K bound in the thread scope, when resolve(K) on one thread   *)
(* is directly followed by resolve(K), a call on the same thread returns the  *)
(* same instance, and a call on another thread of the process calls the       *)
(* factory itself and returns a different instance.                           *)
C2_ThreadIsolation ==
    [][\A k \in Keys :
         (/\ ResolvedStr(last, k) /\ last.res.kind = "one"
          /\ BoundIn(k, "ThreadScope")
          /\ ResolvedStr(last', k) /\ last'.res.kind = "one")
         => /\ last'.caller = last.caller => last'.res = last.res
            /\ (last'.caller # last.caller /\ Pid(last'.caller) = Pid(last.caller))
               => (last'.res # last.res /\ last'.invoked = <<k>>)
      ]_vars

(* C16: for a key K bound in the process scope, a resolve(K) that gets past   *)
(* the lookup and the completeness check is a cache hit exactly when the      *)
(* scope stores an instance under the caller's own process identifier and K,  *)
(* and otherwise calls the factory itself; it stores only under the caller's  *)
(* own process identifier, and no object is stored under two of them.  So of  *)
(* two consecutive returning calls, those under one process identifier        *)
(* return the same instance and those under different ones do not.            *)
C16_ProcessPartition ==
    [][\A k \in Keys :
         /\ (/\ ResolvedStr(last', k) /\ BoundIn(k, "ProcessScope")
             /\ last'.res.err \notin {"KeyError", "UnresolvableError"})
            => /\ IF KeyTransform("ProcessScope", k, last'.caller)
                       \in DOMAIN Live(lookup, scopeObjs, "ProcessScope")
                  THEN /\ last'.invoked = <<>>
                       /\ last'.res =
                             One(Live(lookup, scopeObjs, "ProcessScope")
                                     [KeyTransform("ProcessScope", k, last'.caller)], FALSE)
                  ELSE last'.invoked = <<k>>
               /\ \A e \in Stored(scopeObjs') \ Stored(scopeObjs) :
                     e[3] = ToString(Pid(last'.caller)) \o "_" \o k
               /\ \A d, e \in Stored(scopeObjs') :
                     (d[1] = "ProcessScope" /\ e[1] = "ProcessScope" /\ d[3] # e[3])
                     => d[4] # e[4]
         /\ (/\ ResolvedStr(last, k) /\ last.res.kind = "one"
             /\ BoundIn(k, "ProcessScope")
             /\ ResolvedStr(last', k) /\ last'.res.kind = "one")
            => IF Pid(last'.caller) = Pid(last.caller)
               THEN last'.res = last.res /\ last'.invoked = <<>>
               ELSE last'.res # last.res
      ]_vars

(* The child process constructed its own instance of "a" while the parent's   *)
(* instance was stored in the same scope object.                              *)
C16_Witness ==
    /\ ResolvedStr(last, "a") /\ BoundIn("a", "ProcessScope")
    /\ Pid(last.caller) = 2 /\ last.res.kind = "one" /\ last.invoked = <<"a">>
    /\ "1_a" \in DOMAIN Live(lookup, scopeObjs, "ProcessScope")
    /\ "2_a" \in DOMAIN Live(lookup, scopeObjs, "ProcessScope")

----------------------------------------------------------------------------
(* Claims checked under SpecDeps *)

(* C3: if K is bound and every key K is declared to depend on is bound, then  *)
(* resolve(K) gets past the completeness check and returns K's instance       *)
(* (unless K's factory itself raises).                                        *)
C3_DeclaredAndBound ==
    \A k \in Keys :
       (/\ ResolvedStr(last, k)
        /\ k \in DOMAIN factories
        /\ k \in DOMAIN depends_obj
        /\ depends_obj[k] \subseteq DOMAIN factories)
       => (last.res.kind = "one" \/ last.res.err = "FactoryError")

(* C4: if K is bound and some key K is declared to depend on is not bound,    *)
(* resolve(K) raises UnresolvableError and calls no factory, also when K has  *)
(* an instance stored in its scope.                                           *)
C4_MissingDependency ==
    \A k \in Keys :
       (/\ ResolvedStr(last, k)
        /\ k \in DOMAIN factories
        /\ k \in DOMAIN depends_obj
        /\ ~(depends_obj[k] \subseteq DOMAIN factories))
       => (last.res = Raise("UnresolvableError") /\ last.invoked = <<>>)

(* resolve("k") refused for an unbound dependency while "k" is stored. *)
C4_Witness ==
    /\ ResolvedStr(last, "k") /\ last.res = Raise("UnresolvableError")
    /\ "k" \in DOMAIN factories
    /\ "k" \in DOMAIN depends_obj /\ ~(depends_obj["k"] \subseteq DOMAIN factories)
    /\ "k" \in DOMAIN Live(lookup, scopeObjs, "SingletonScope")

----------------------------------------------------------------------------
(* Claims checked under SpecMany *)

(* C6: a resolve call that requests several keys and returns, returns a       *)
(* sequence with one value per requested key, in order, with the same         *)
(* instance at every position of a singleton-bound key.                       *)
C6_OneValuePerKey ==
    (/\ last.op = "resolve" /\ last.arg \in {"iter", "args"}
     /\ Len(last.keys) > 1
     /\ last.res.kind # "raise")
    => /\ last.res.kind = "seq"
       /\ Len(last.res.vals) = Len(last.keys)
       /\ \A i, j \in 1 .. Len(last.keys) :
             (last.keys[i] = last.keys[j] /\ BoundIn(last.keys[i], "SingletonScope"))
             => last.res.vals[i] = last.res.vals[j]

(* C7 as stated: a resolve call that fails leaves the stored instances of     *)
(* every scope as they were before the call.                                  *)
C7_FailureStoresNothing ==
    [][(last'.op = "resolve" /\ last'.res.kind = "raise")
       => Stored(scopeObjs') = Stored(scopeObjs)
      ]_vars

(* C7 as amended: a resolve call that fails removes and replaces no stored    *)
(* instance and stores nothing for the key that failed; what it adds are      *)
(* instances it constructed for keys that resolved before the failing key,    *)
(* so a failing call for a single key leaves every scope as it was.           *)
C7_FailureKeepsEarlierKeys ==
    [][(last'.op = "resolve" /\ last'.res.kind = "raise")
       => LET inv  == last'.invoked
              done == Len(inv) - (IF last'.res.err = "FactoryError" THEN 1 ELSE 0)
          IN  /\ Stored(scopeObjs) \subseteq Stored(scopeObjs')
              /\ \A e \in Stored(scopeObjs') \ Stored(scopeObjs) :
                    /\ e[4].n > ncalls
                    /\ \E i \in 1 .. done :
                          e[3] = KeyTransform(e[1], inv[i], last'.caller)
              /\ Len(last'.keys) <= 1 => Stored(scopeObjs') = Stored(scopeObjs)
      ]_vars

(* A request for several keys failed on a later key after it had constructed  *)
(* and stored an earlier one.                                                 *)
C7_Witness ==
    /\ last.op = "resolve" /\ last.res.kind = "raise"
    /\ Len(last.keys) > 1 /\ last.invoked # <<>>
    /\ last.res.err \in {"KeyError", "UnresolvableError"}
    /\ \E e \in Stored(scopeObjs) : e[3] = last.invoked[1] /\ e[4].n = ncalls

----------------------------------------------------------------------------
(* Error kinds *)

(* class DiError(Exception); class UnresolvableError(DiError): the kinds an   *)
(* `except DiError` clause catches.  KeyError, TypeError, NameError and       *)
(* IndexError are builtins outside that family.                               *)
DiErrors == {"DiError", "UnresolvableError"}

(* C11: resolve(K) for a key K without a binding in the Registry fails at     *)
(* once, calling no factory, with an error of the UnresolvableError kind.     *)
C11_UnboundIsUnresolvable ==
    \A k \in Keys :
       (ResolvedStr(last, k) /\ k \notin DOMAIN factories)
       => /\ last.res.kind = "raise"
          /\ last.invoked = <<>>
          /\ last.res.err = "UnresolvableError"
          /\ last.res.err \in DiErrors

----------------------------------------------------------------------------
(* SpecForms: the two forms of register and of depends_on, and resolve_deps   *)
(* for the target "k", whose dependencies are among "a" and "b"; "t" is a     *)
(* target without declarations.                                               *)

Targets    == {"k"}
FormScopes == {StrRef("singleton"), StrRef("none"), StrRef("bogus")}

NextForms ==
    \/ \E key \in {"a", "b"}, f \in {"f", NoFactory}, scope \in FormScopes :
          Register(key, f, scope)
    \/ \E f \in UserFacs : RegisterPartial(f)
    \/ \E d \in {"a", "b"}, obj \in Targets \cup {NoTarget} : DependsOn(Str(d), obj)
    \/ \E obj \in Targets \cup {NoTarget} : DependsOn(List(<<"a", "b">>), obj)
    \/ \E obj \in Targets \cup {"t"}, failAt \in 0 .. 2 :
          ResolveDeps(<<1, 1>>, obj, FALSE, failAt)

SpecForms == Init /\ [][NextForms]_vars

----------------------------------------------------------------------------
(* Claims checked under SpecForms *)

(* C12: a resolve_deps(obj) call that returns, for an obj with declared       *)
(* dependencies, resolved exactly the declared keys and returns one value     *)
(* for each of them.                                                          *)
C12_ResolveDepsReturnsAll ==
    (/\ last.op = "resolve_deps" /\ last.arg \in DOMAIN depends_obj
     /\ last.res.kind # "raise")
    => /\ Range(last.keys) = depends_obj[last.arg]
       /\ Len(last.keys) = Cardinality(depends_obj[last.arg])
       /\ Len(last.res.vals) = Cardinality(depends_obj[last.arg])


(* C13: depends_on(keys) without a target returns a decorator (whose          *)
(* application to obj then declares keys for obj as depends_on(keys, obj)     *)
(* does): the call does not raise, and it leaves the declarations to the      *)
(* decorator.                                                                 *)
C13_DecoratorForm ==
    [][(last'.op = "depends_on" /\ last'.arg = NoTarget)
       => /\ last'.res.kind = "partial"
          /\ depends_obj' = depends_obj
      ]_vars


(* C14: when register(K, scope=s) returned its partial and the partial is     *)
(* applied to f, the Registry ends as register(K, f, scope=s) would leave it  *)
(* from the same state, with the same outcome: K bound to (f, the class s     *)
(* names) and every other binding as before, or, for an s that names no       *)
(* scope, the same error and the Registry as before.                          *)
C14_TwoStepRegister ==
    [][\A f \in UserFacs, s \in FormScopes :
         (/\ last.op = "register" /\ last.res.kind = "partial" /\ last.arg = s.v
          /\ last'.op = "partial" /\ last'.arg = f)
         => /\ factories' = RegistryAdd(lookup, factories, last.keys[1],
                                        UserFactory(f), s).factories
            /\ (last'.res.kind = "ret")
                  = RegistryAdd(lookup, factories, last.keys[1], UserFactory(f), s).ok
            /\ IF s \in DOMAIN lookup
               THEN /\ last'.res = Returned
                    /\ factories' = Put(factories, last.keys[1],
                                        [factory |-> UserFactory(f), scope |-> lookup[s]])
               ELSE /\ last'.res.kind = "raise"
                    /\ factories' = factories
      ]_vars

(* The partial of register("a", scope="none") was applied to a factory while  *)
(* "b" had a binding: "a" is bound in the None scope.                         *)
C14_Witness ==
    /\ last.op = "partial" /\ last.keys = <<"a">> /\ last.res = Returned
    /\ BoundIn("a", "NoneScope") /\ factories["a"].factory = UserFactory(last.arg)
    /\ "b" \in DOMAIN factories

----------------------------------------------------------------------------
(* SpecScopes: one thread that asks the ScopeRegistry for scopes by name, by  *)
(* class and by instance, and binds and resolves "a" in them.  The instance   *)
(* is the one a call of named_scope(name) returned.                           *)

NamedInstance == InstRef("NamedScope", 1)
ScopeArgs     == {StrRef("singleton"), ClassRef("SingletonScope"), StrRef("none"),
                  NamedInstance}
GetArgs       == ScopeArgs \cup {ClassRef("NoneScope"), StrRef("bogus")}

NextScopes ==
    \/ \E f \in UserFacs, scope \in ScopeArgs : Register("a", f, scope)
    \/ \E scope \in GetArgs : ScopesGet(<<1, 1>>, scope)
    \/ \E failAt \in 0 .. 1 : Resolve(<<1, 1>>, Str("a"), <<>>, FALSE, failAt)

SpecScopes == Init /\ [][NextScopes]_vars

----------------------------------------------------------------------------
(* Claims checked under SpecScopes *)

(* The scope class that a name or a class given to get stands for. *)
ClassOf(v) == CHOOSE cls \in ScopeClasses : v \in {cls, ScopeName(cls)}

(* C17: on one thread, every get for a scope class, by its registered name or *)
(* by the class, returns the first instance of the class, which is the one    *)
(* stored under the class; and no call, get or resolve, makes a second        *)
(* instance of a class or stores another one under it.                        *)
C17_GetIsIdempotent ==
    [][/\ \A cls \in ScopeClasses :
             /\ Len(scopeObjs'[cls]) <= 1
             /\ ClassRef(cls) \in DOMAIN lookup
                => /\ lookup'[ClassRef(cls)] = lookup[ClassRef(cls)]
                   /\ Len(scopeObjs'[cls]) = Len(scopeObjs[cls])
       /\ (/\ last'.op = "get"
           /\ \E cls \in ScopeClasses : last'.arg \in {cls, ScopeName(cls)})
          => /\ last'.res = One(ScopeObj(InstRef(ClassOf(last'.arg), 1)), FALSE)
             /\ lookup'[ClassRef(ClassOf(last'.arg))] = InstRef(ClassOf(last'.arg), 1)
             /\ ClassRef(ClassOf(last'.arg)) \in DOMAIN lookup
                => (lookup' = lookup /\ scopeObjs' = scopeObjs)
      ]_vars

(* get(SingletonScope), by class, returned the instance in which a resolve    *)
(* had stored "a".                                                            *)
C17_Witness ==
    /\ last.op = "get" /\ last.arg = "SingletonScope"
    /\ last.res = One(ScopeObj(InstRef("SingletonScope", 1)), FALSE)
    /\ "a" \in DOMAIN Live(lookup, scopeObjs, "SingletonScope")

(* C18: register(K, f, scope) with the instance that named_scope(name)        *)
(* returned binds K to that instance, and resolve(K) then goes through it:    *)
(* it returns, calling the factory only when the instance stores nothing      *)
(* for K.                                                                     *)
C18_NamedScopeResolves ==
    [][/\ (last'.op = "register" /\ last'.arg = "NamedScope")
          => /\ last'.res = Returned
             /\ factories'[last'.keys[1]].scope = NamedInstance
       /\ \A k \in Keys :
             (/\ ResolvedStr(last', k) /\ k \in DOMAIN factories
              /\ factories[k].scope = NamedInstance
              /\ last'.res.err # "FactoryError")
             => last'.res.kind = "one"
      ]_vars

----------------------------------------------------------------------------
(* resolve(key) statement by statement: between any two of the steps below    *)
(* the interpreter may run another thread.  A frame holds the locals of the   *)
(* _resolve_one call a thread is in, and, once the call has ended, what it    *)
(* ended with: value is what it returned, made whether it called the factory, *)
(* scope the scope instance it used, err what it raised.                      *)

NoRef == StrRef("")

Frame(pc, key, factory, fscope, scope, value, made, err) ==
    [pc |-> pc, key |-> key, factory |-> factory, fscope |-> fscope,
     scope |-> scope, value |-> value, made |-> made, err |-> err]

(* The call goes on with the frame fr. *)
Step(c, fr) ==
    /\ frames' = [frames EXCEPT ![c] = fr]
    /\ UNCHANGED last

(* The call ends with the frame fr and the outcome res. *)
Leave(c, fr, res) ==
    /\ frames' = [frames EXCEPT ![c] = [fr EXCEPT !.pc = "done"]]
    /\ last' = Call("resolve", c, <<fr.key>>, "str", res,
                    IF fr.made THEN <<fr.key>> ELSE <<>>)

(* l.253: factory, factory_scope = self._registry.get(key) *)
EnterResolveOne(c, key) ==
    /\ frames[c].pc \in {"idle", "done"}
    /\ IF RegistryHas(factories, key)
       THEN Step(c, Frame("missing", key, factories[key].factory, factories[key].scope,
                          NoRef, Fixed(""), FALSE, ""))
       ELSE Leave(c, Frame("done", key, LambdaFactory(""), NoRef, NoRef, Fixed(""),
                           FALSE, "KeyError"),
                  Raise("KeyError"))
    /\ UNCHANGED <<lookup, scopeObjs, factories, depends_obj, ncalls>>

(* l.255-257: the completeness check *)
CheckMissing(c) ==
    /\ frames[c].pc = "missing"
    /\ IF Truthy(DepsMissing(depends_obj, factories, frames[c].key))
       THEN Leave(c, [frames[c] EXCEPT !.err = "UnresolvableError"],
                  Raise("UnresolvableError"))
       ELSE Step(c, [frames[c] EXCEPT !.pc = "get"])
    /\ UNCHANGED <<lookup, scopeObjs, factories, depends_obj, ncalls>>

(* l.138 and l.141: scope = self.resolve(scope); inspect.isclass(scope) *)
GetResolved(c, r) ==
    /\ IF r.ok
       THEN Step(c, [frames[c] EXCEPT !.scope = r.ref,
                       !.pc = IF r.ref.kind = "class" THEN "isclass" ELSE "in"])
       ELSE Leave(c, [frames[c] EXCEPT !.err = r.err], Raise(r.err))
    /\ UNCHANGED <<lookup, scopeObjs, factories, depends_obj, ncalls>>

GetResolve(c) ==
    /\ frames[c].pc = "get"
    /\ GetResolved(c, ScopeResolve(lookup, frames[c].fscope))

(* l.143: if scope not in self._lookup *)
GetTest(c) ==
    /\ frames[c].pc = "isclass"
    /\ Step(c, [frames[c] EXCEPT
                  !.pc = IF Instantiated(lookup, frames[c].scope) THEN "again" ELSE "make"])
    /\ UNCHANGED <<lookup, scopeObjs, factories, depends_obj, ncalls>>

(* l.144: self._lookup[scope] = scope() *)
GetMake(c) ==
    /\ frames[c].pc = "make"
    /\ lookup' = MakeLookup(lookup, scopeObjs, frames[c].scope)
    /\ scopeObjs' = MakeObjs(scopeObjs, frames[c].scope, c)
    /\ Step(c, [frames[c] EXCEPT !.pc = "again"])
    /\ UNCHANGED <<factories, depends_obj, ncalls>>

(* l.145: scope = self.resolve(scope) *)
GetResolveAgain(c) ==
    /\ frames[c].pc = "again"
    /\ GetResolved(c, ScopeResolve(lookup, frames[c].scope))

(* l.260-261: if key in scope: value = scope[key]; nothing is ever deleted    *)
(* from a scope, so the two reads are taken together.                         *)
LookIn(c) ==
    /\ frames[c].pc = "in"
    /\ IF ScopeContains(scopeObjs[frames[c].scope.v][frames[c].scope.id],
                        frames[c].scope.v, frames[c].key, c)
       THEN Leave(c, [frames[c] EXCEPT !.value =
                         ScopeGetItem(scopeObjs[frames[c].scope.v][frames[c].scope.id],
                                      frames[c].scope.v, frames[c].key, c)],
                  One(ScopeGetItem(scopeObjs[frames[c].scope.v][frames[c].scope.id],
                                   frames[c].scope.v, frames[c].key, c), FALSE))
       ELSE Step(c, [frames[c] EXCEPT !.pc = "factory"])
    /\ UNCHANGED <<lookup, scopeObjs, factories, depends_obj, ncalls>>

(* l.263, right-hand side: factory(), with its outcome f *)
FactoryCalled(c, raises, f) ==
    /\ f.n <= MaxCalls
    /\ raises => ~f.ok
    /\ ncalls' = f.n
    /\ IF f.ok
       THEN Step(c, [frames[c] EXCEPT !.value = f.val, !.made = TRUE, !.pc = "store"])
       ELSE Leave(c, [frames[c] EXCEPT !.made = TRUE, !.err = "FactoryError"],
                  Raise("FactoryError"))
    /\ UNCHANGED <<lookup, scopeObjs, factories, depends_obj>>

CallTheFactory(c, raises) ==
    /\ frames[c].pc = "factory"
    /\ FactoryCalled(c, raises, CallFactory(frames[c].factory, ncalls, raises))

(* l.263, the assignment scope[key] = value, and l.265: return value *)
StoreInScope(c) ==
    /\ frames[c].pc = "store"
    /\ scopeObjs' = [scopeObjs EXCEPT ![frames[c].scope.v][frames[c].scope.id] =
                        ScopeSetItem(@, frames[c].scope.v, frames[c].key,
                                     frames[c].value, c)]
    /\ Leave(c, frames[c], One(frames[c].value, FALSE))
    /\ UNCHANGED <<lookup, factories, depends_obj, ncalls>>

ResolveStep(c) ==
    \/ CheckMissing(c)
    \/ GetResolve(c)
    \/ GetTest(c)
    \/ GetMake(c)
    \/ GetResolveAgain(c)
    \/ LookIn(c)
    \/ \E raises \in BOOLEAN : CallTheFactory(c, raises)
    \/ StoreInScope(c)

----------------------------------------------------------------------------
(* SpecConc: the two threads of process 1 resolve "a", bound in the singleton *)
(* scope, with their steps interleaved.                                       *)

NextConc ==
    \/ \E f \in UserFacs : Register("a", f, StrRef("singleton"))
    \/ \E c \in Threads : EnterResolveOne(c, "a")
    \/ \E c \in Threads : ResolveStep(c)

SpecConc == Init /\ [][NextConc]_vars


----------------------------------------------------------------------------
(* Claims checked under SpecConc *)

(* The frame of a call that returned a value. *)
ReturnedValue(fr) == fr.pc = "done" /\ fr.err = ""

(* C15: the cache check, the construction and the store of two threads that   *)
(* resolve the same singleton-bound key can interleave (C15_Witness is such   *)
(* a run); in every run, a store replaces whatever the scope holds for the    *)
(* key, so that the instance stored last is the cached one, and two threads   *)
(* whose calls both called the factory returned different instances.          *)
C15_LastStoreWins ==
    [][/\ \A c \in Threads :
             (frames[c].pc = "store" /\ frames'[c].pc = "done")
             => /\ scopeObjs'[frames[c].scope.v][frames[c].scope.id].instances[frames[c].key]
                      = frames[c].value
                /\ last'.res = One(frames[c].value, FALSE)
       /\ \A c, d \in Threads :
             (/\ c # d
              /\ ReturnedValue(frames'[c]) /\ frames'[c].made
              /\ ReturnedValue(frames'[d]) /\ frames'[d].made)
             => frames'[c].value # frames'[d].value
      ]_vars

(* Both threads resolved "a" through the same singleton scope instance, both  *)
(* called the factory, they returned different instances, and the cached one  *)
(* is that of the thread that stored and returned last.                       *)
C15_Witness ==
    /\ BoundIn("a", "SingletonScope")
    /\ \A c \in Threads : ReturnedValue(frames[c]) /\ frames[c].made /\ frames[c].key = "a"
    /\ frames[<<1, 1>>].scope = frames[<<2, 1>>].scope
    /\ frames[<<1, 1>>].value # frames[<<2, 1>>].value
    /\ last.op = "resolve" /\ last.caller \in Threads /\ last.invoked = <<"a">>
    /\ Live(lookup, scopeObjs, "SingletonScope")["a"] = frames[last.caller].value

(* C20: at most one instance of a scope class is ever made, two threads that  *)
(* are past get for the same class hold the same scope instance, and the      *)
(* instance a returned call constructed is in the scope that get returns.     *)
C20_OneScopeInstance ==
    /\ \A cls \in ScopeClasses : Len(scopeObjs[cls]) <= 1
    /\ \A c, d \in Threads :
          (/\ frames[c].pc \in {"in", "factory", "store", "done"}
           /\ frames[d].pc \in {"in", "factory", "store", "done"}
           /\ frames[c].scope.kind = "inst" /\ frames[d].scope.kind = "inst"
           /\ frames[c].scope.v = frames[d].scope.v)
          => frames[c].scope = frames[d].scope
    /\ \A c \in Threads :
          (/\ frames[c].pc = "done" /\ frames[c].err = "" /\ frames[c].made
           /\ frames[c].scope.v = "SingletonScope")
          => frames[c].key \in DOMAIN Live(lookup, scopeObjs, "SingletonScope")

====
